---- MODULE Spec2Model ----
(***************************************************************************)
(* gomechan: net/http helpers.                                             *)
(*                                                                         *)
(*   core/response        ResponseWriter: New, Build, SetHeaders, Send,    *)
(*                        AsJson, IgnoreLog                                *)
(*   internal response    the older ResponseWriter: Build, SetHeaders,     *)
(*                        Send, BuildAndSend, AsJson (no ignoreLog field)  *)
(*   core/templates       Template: LoadTemplateFolder, GetTemplate,       *)
(*                        LoadHTML                                         *)
(*                                                                         *)
(* Strings the code inspects character by character (header keys, file     *)
(* names) are sequences of one-character strings; strings the code only    *)
(* copies or concatenates (bodies, header values) are TLA+ strings.        *)
(***************************************************************************)
EXTENDS Integers, Sequences, FiniteSets, TLC

\* ------------------------------------------------------------------ bounds
\* Number of method calls made on one ResponseWriter in a behaviour.
MaxCalls == 3

\* ------------------------------------------------------- program constants
StatusOK == 200
StatusNotFound == 404

\* --------------------------------------------------------------- instances
Builders == {"b1", "b2"}

\* A map[string]string is a reference into the heap. Ref(b, n) is the map made
\* for writer b at its n-th call (n = 0: the map New makes); Nil is the nil map.
Ref(b, n) == << b, n >>
Nil == << >>

\* ------------------------------------------------------------- small inputs
StatusCodes == {StatusOK, StatusNotFound}
Bodies == {"hi", "bye"}

KeyContentType == <<"c","o","n","t","e","n","t","-","t","y","p","e">>
KeyContentTypeCanonical == <<"C","o","n","t","e","n","t","-","T","y","p","e">>
KeyXA == <<"x","-","a">>

EmptyMap == [k \in {} |-> ""]

\* Header maps a handler passes to SetHeaders / BuildAndSend.
HeaderMaps ==
  { (KeyContentType :> "text/html") @@ (KeyXA :> "1"),
    (KeyContentTypeCanonical :> "text/html") }

\* map[string]any bodies given to AsJson; a value is a string or a channel
\* (a value encoding/json cannot encode).
JString(s) == [t |-> "string", s |-> s]
JChan == [t |-> "chan", s |-> ""]
JsonBodies ==
  { ("status" :> JString("up")),
    ("message" :> JString("Test")) @@ ("status" :> JString("up")),
    ("ch" :> JChan) }

\* ------------------------------------------------------------------- state
VARIABLES
  rw,      \* rw[b]: the ResponseWriter struct (status, body, headers, ignoreLog)
  heap,    \* heap[ref]: contents of the map[string]string a reference points to
  trace,   \* trace[b]: calls received by the bound http.ResponseWriter and slog
  ret,     \* ret[b]: what the last method call on b returned
  calls,   \* calls[b]: the method calls made on b so far, in order
  storage, \* storage[name]: the entry of that name in the template folder
  tmpl,    \* the *Template the handlers share: << >> (none yet) or << t >>
  tres,    \* the last call on the templates package and what it returned
  units    \* units[u]: where handler u is in its call on the shared *Template

bvars == <<rw, heap, trace, ret, calls>>
tvars == <<storage, tmpl, tres, units>>
vars == <<rw, heap, trace, ret, calls, storage, tmpl, tres, units>>

\* --------------------------------------------------------- string helpers
ToUpper(c) ==
  CASE c = "a" -> "A" [] c = "c" -> "C" [] c = "e" -> "E" [] c = "n" -> "N"
    [] c = "o" -> "O" [] c = "p" -> "P" [] c = "t" -> "T" [] c = "x" -> "X"
    [] c = "y" -> "Y" [] OTHER -> c

ToLower(c) ==
  CASE c = "A" -> "a" [] c = "C" -> "c" [] c = "E" -> "e" [] c = "N" -> "n"
    [] c = "O" -> "o" [] c = "P" -> "p" [] c = "T" -> "t" [] c = "X" -> "x"
    [] c = "Y" -> "y" [] OTHER -> c

\* http.Header.Add stores the value under textproto.CanonicalMIMEHeaderKey(k):
\* the first letter and every letter after a hyphen upper-cased, the others
\* lower-cased.
CanonicalMIMEHeaderKey(k) ==
  [i \in 1..Len(k) |->
     IF i = 1 \/ k[i-1] = "-" THEN ToUpper(k[i]) ELSE ToLower(k[i])]

\* All orders in which `for k, v := range m` can visit the keys in S.
RangeOrders(S) ==
  { o \in [1..Cardinality(S) -> S] :
      \A i, j \in 1..Cardinality(S) : i # j => o[i] # o[j] }

\* ------------------------------------------------------------ the request
\* r.RemoteAddr as net/http sets it: "IP:port", the IP of an IPv6 peer in
\* brackets.
AddrIPv4 == << "1", "0", ".", "0", ".", "0", ".", "1", ":", "5", "4", "3", "2", "1" >>
AddrIPv6 == << "[", ":", ":", "1", "]", ":", "8", "0", "8", "0" >>
AddrNoPort == << "1", "0", ".", "0", ".", "0", ".", "1" >>
RemoteAddrs == { AddrIPv4, AddrIPv6, AddrNoPort }

Request(addr) == [RemoteAddr |-> addr, Method |-> "GET", URL |-> "/"]

\* response.go:88 strings.Split(r.r.RemoteAddr, ":")[0]: the text before the
\* first colon, the whole text when it has none.
RECURSIVE BeforeFirstColon(_)
BeforeFirstColon(cs) ==
  IF cs = << >> THEN << >>
  ELSE IF Head(cs) = ":" THEN << >>
  ELSE << Head(cs) >> \o BeforeFirstColon(Tail(cs))

\* ----------------------------------------------------------- sink and log
Event(ev, k, v, n, ok, call) ==
  [ev |-> ev, k |-> k, v |-> v, n |-> n, ok |-> ok, call |-> call]

\* response.go:77-79
HeaderAdds(m, order, call) ==
  [i \in 1..Len(order) |-> Event("Add", order[i], m[order[i]], 0, TRUE, call)]

\* The map a headers reference denotes; ranging over a nil map visits nothing.
HeaderMapOf(hp, ref) == IF ref = Nil THEN EmptyMap ELSE hp[ref]

\* response.go:80
StatusWrite(r, call) == Event("WriteHeader", <<>>, "", r.status, TRUE, call)

\* response.go:81
BodyWrite(r, ok, call) == Event("Write", <<>>, r.body, 0, ok, call)

\* Variants of SendLogs: the flag is not consulted; the error is not consulted.
SendLogs_FlagIgnored(r, ok) == ok

SendLogs_ErrorIgnored(r, ok) == ~r.ignoreLog

\* response.go:82-89: the record is emitted only after a write without error
\* and only when ignoreLog is unset.
SendLogs(r, ok) == ok /\ ~r.ignoreLog

\* response.go:87-88: status, remote address, method and URL of the record
\* (n, k and v of the event).
LogRecord(r, call) ==
  Event("Log", BeforeFirstColon(r.r.RemoteAddr), r.r.Method \o " " \o r.r.URL,
        r.status, TRUE, call)

\* response.go:82-84,90
SendResult(ok) == IF ok THEN "nil" ELSE "WriteError"

\* Variant of SendEvents: the status is written before the headers are added.
SendEvents_StatusFirst(r, hp, order, ok, call) ==
  << StatusWrite(r, call) >>
    \o HeaderAdds(HeaderMapOf(hp, r.headers), order, call)
    \o << BodyWrite(r, ok, call) >>
    \o (IF SendLogs(r, ok) THEN << LogRecord(r, call) >> ELSE << >>)

\* response.go:76-91: everything one Send() makes the sink and the logger see.
SendEvents(r, hp, order, ok, call) ==
  HeaderAdds(HeaderMapOf(hp, r.headers), order, call)
    \o << StatusWrite(r, call), BodyWrite(r, ok, call) >>
    \o (IF SendLogs(r, ok) THEN << LogRecord(r, call) >> ELSE << >>)

\* Variant of BuildFields: the body is not stored.
BuildFields_StatusOnly(r, status, body) == [r EXCEPT !.status = status]

\* response.go:63-67
BuildFields(r, status, body) == [r EXCEPT !.body = body, !.status = status]

\* Variant of SetHeadersField: the earlier map is kept.
SetHeadersField_KeepsOld(r, ref) == r

\* response.go:70-73
SetHeadersField(r, ref) == [r EXCEPT !.headers = ref]

\* Variant of IgnoreLogField: the writer is reset as well.
IgnoreLogField_ResetsBody(r) == [r EXCEPT !.ignoreLog = TRUE, !.body = ""]

\* response.go:113-116
IgnoreLogField(r) == [r EXCEPT !.ignoreLog = TRUE]

\* ------------------------------------------------------------ encoding/json
\* json.Marshal of a map[string]any fails on a value it cannot encode.
Marshalable(j) == \A k \in DOMAIN j : j[k].t = "string"

\* Object keys are written in sorted order.
SortedJsonKeys == << "ch", "message", "status" >>

JsonMember(j, k) == "\"" \o k \o "\":\"" \o j[k].s \o "\""

RECURSIVE JsonMembers(_, _)
JsonMembers(j, ks) ==
  IF ks = << >> THEN ""
  ELSE IF Len(ks) = 1 THEN JsonMember(j, ks[1])
  ELSE JsonMember(j, ks[1]) \o "," \o JsonMembers(j, Tail(ks))

Marshal(j) ==
  "{" \o JsonMembers(j, SelectSeq(SortedJsonKeys, LAMBDA k : k \in DOMAIN j)) \o "}"

\* ------------------------------------------------------------ call history
Call(op, status, body, hdr, jbody) ==
  [op |-> op, status |-> status, body |-> body, hdr |-> hdr, jbody |-> jbody]

\* A handler that panicked is gone: net/http recovers and drops the request.
Alive(b) == ret[b] # "panic"

CanCall(b) == Alive(b) /\ Len(calls[b]) < MaxCalls

\* Every ResponseWriter method appends itself to the history; none of them
\* touches the templates package.
Record(b, c) ==
  /\ calls' = [calls EXCEPT ![b] = Append(@, c)]
  /\ UNCHANGED tvars

\* ------------------------------------------------- core/response operations
\* Variant of New: the status is left at its zero value.
New_ZeroStatus(b) ==
  [status |-> 0, body |-> "", headers |-> Ref(b, 0), ignoreLog |-> FALSE,
   start |-> 0, w |-> b, r |-> Request(AddrIPv4)]

\* response.go:43-53
New(b) ==
  [status |-> StatusOK, body |-> "", headers |-> Ref(b, 0), ignoreLog |-> FALSE,
   start |-> 0, w |-> b, r |-> Request(AddrIPv4)]

\* response.go:63-67
Build(b, status, body) ==
  /\ CanCall(b)
  /\ rw' = [rw EXCEPT ![b] = BuildFields(@, status, body)]
  /\ ret' = [ret EXCEPT ![b] = "self"]
  /\ Record(b, Call("Build", status, body, << >>, << >>))
  /\ UNCHANGED <<heap, trace>>

\* The map a handler passes: hdr is << m >> for a map literal with contents m,
\* which is a new map on the heap, and << >> for nil.
ArgRef(b, hdr) == IF hdr = << >> THEN Nil ELSE Ref(b, Len(calls[b]) + 1)

Alloc(hp, b, hdr) == IF hdr = << >> THEN hp ELSE (ArgRef(b, hdr) :> hdr[1]) @@ hp

\* response.go:70-73: the writer keeps the caller's map itself, not a copy.
SetHeaders(b, hdr) ==
  /\ CanCall(b)
  /\ rw' = [rw EXCEPT ![b] = SetHeadersField(@, ArgRef(b, hdr))]
  /\ heap' = Alloc(heap, b, hdr)
  /\ ret' = [ret EXCEPT ![b] = "self"]
  /\ Record(b, Call("SetHeaders", 0, "", hdr, << >>))
  /\ UNCHANGED trace

\* response.go:70-73 with a map the handler keeps (a package-level variable,
\* a map handed to several handlers): the writer refers to that very map.
SetHeadersRef(b, ref) ==
  /\ CanCall(b)
  /\ rw' = [rw EXCEPT ![b] = SetHeadersField(@, ref)]
  /\ ret' = [ret EXCEPT ![b] = "self"]
  /\ Record(b, Call("SetHeaders", 0, "", << heap[ref] >>, << >>))
  /\ UNCHANGED <<heap, trace>>

\* response.go:113-116
IgnoreLog(b) ==
  /\ CanCall(b)
  /\ rw' = [rw EXCEPT ![b] = IgnoreLogField(@)]
  /\ ret' = [ret EXCEPT ![b] = "self"]
  /\ Record(b, Call("IgnoreLog", 0, "", << >>, << >>))
  /\ UNCHANGED <<heap, trace>>

\* response.go:76-91; ok is whether io.WriteString returned without error.
Send(b, ok) ==
  /\ CanCall(b)
  /\ \E order \in RangeOrders(DOMAIN HeaderMapOf(heap, rw[b].headers)) :
       trace' = [trace EXCEPT ![b] =
                   @ \o SendEvents(rw[b], heap, order, ok, Len(calls[b]) + 1)]
  /\ ret' = [ret EXCEPT ![b] = SendResult(ok)]
  /\ Record(b, Call("Send", 0, "", << >>, << >>))
  /\ UNCHANGED <<rw, heap>>

\* response.go:108-109: the error of r.Send() is dropped.
AsJsonResult(marshalled, ok) == IF marshalled THEN "nil" ELSE "MarshalError"

\* response.go:106
AsJsonHeaders(m) ==
  [k \in DOMAIN m \cup {KeyContentType} |->
     IF k = KeyContentType THEN "application/json" ELSE m[k]]

\* Variant of AsJsonEvents: the response is sent before the error is looked at.
AsJsonEvents_SendsAnyway(r, hp, marshalled, order, ok, call) ==
  SendEvents(r, hp, order, ok, call)

\* response.go:102-108: nothing is sent when json.Marshal fails.
AsJsonEvents(r, hp, marshalled, order, ok, call) ==
  IF marshalled THEN SendEvents(r, hp, order, ok, call) ELSE << >>

\* response.go:101-110
AsJson(b, status, jbody, ok) ==
  /\ CanCall(b)
  /\ Record(b, Call("AsJson", status, "", << >>, << jbody >>))
  /\ IF Marshalable(jbody) /\ rw[b].headers = Nil
       THEN \* line 106: assignment to entry in nil map
            /\ ret' = [ret EXCEPT ![b] = "panic"]
            /\ UNCHANGED <<rw, heap, trace>>
       ELSE /\ heap' = IF Marshalable(jbody)
                         THEN [heap EXCEPT ![rw[b].headers] = AsJsonHeaders(@)]
                         ELSE heap
            /\ rw' = IF Marshalable(jbody)
                       THEN [rw EXCEPT ![b] = BuildFields(@, status, Marshal(jbody))]
                       ELSE rw
            /\ \E order \in RangeOrders(DOMAIN HeaderMapOf(heap', rw[b].headers)) :
                 trace' = [trace EXCEPT ![b] =
                    @ \o AsJsonEvents(rw'[b], heap', Marshalable(jbody), order, ok,
                                      Len(calls[b]) + 1)]
            /\ ret' = [ret EXCEPT ![b] = AsJsonResult(Marshalable(jbody), ok)]

\* --------------------------------------- internal response operations
\* The older ResponseWriter (internal/templates/templates.go, package
\* response): no ignoreLog field, no chaining, and BuildAndSend.

\* templates.go:89-98
NewInternal(b) ==
  [status |-> StatusOK, body |-> "", headers |-> Ref(b, 0),
   start |-> 0, w |-> b, r |-> Request(AddrIPv4)]

\* templates.go:108-111
BuildFieldsInternal(r, status, body) ==
  [r EXCEPT !.body = body, !.status = status]

\* templates.go:114-116
SetHeadersFieldInternal(r, ref) == [r EXCEPT !.headers = ref]

\* templates.go:119-132: the record is emitted after every write without error.
SendEventsInternal(r, hp, order, ok, call) ==
  HeaderAdds(HeaderMapOf(hp, r.headers), order, call)
    \o << Event("WriteHeader", << >>, "", r.status, TRUE, call),
          Event("Write", << >>, r.body, 0, ok, call) >>
    \o (IF ok
          THEN << Event("Log", BeforeFirstColon(r.r.RemoteAddr),
                        r.r.Method \o " " \o r.r.URL, r.status, TRUE, call) >>
          ELSE << >>)

\* templates.go:125-127,131
SendResultInternal(ok) == IF ok THEN "nil" ELSE "WriteError"

\* templates.go:108-111
BuildInternal(b, status, body) ==
  /\ CanCall(b)
  /\ rw' = [rw EXCEPT ![b] = BuildFieldsInternal(@, status, body)]
  /\ ret' = [ret EXCEPT ![b] = "void"]
  /\ Record(b, Call("Build", status, body, << >>, << >>))
  /\ UNCHANGED <<heap, trace>>

\* templates.go:114-116
SetHeadersInternal(b, hdr) ==
  /\ CanCall(b)
  /\ rw' = [rw EXCEPT ![b] = SetHeadersFieldInternal(@, ArgRef(b, hdr))]
  /\ heap' = Alloc(heap, b, hdr)
  /\ ret' = [ret EXCEPT ![b] = "void"]
  /\ Record(b, Call("SetHeaders", 0, "", hdr, << >>))
  /\ UNCHANGED trace

\* templates.go:119-132
SendInternal(b, ok) ==
  /\ CanCall(b)
  /\ \E order \in RangeOrders(DOMAIN HeaderMapOf(heap, rw[b].headers)) :
       trace' = [trace EXCEPT ![b] =
          @ \o SendEventsInternal(rw[b], heap, order, ok, Len(calls[b]) + 1)]
  /\ ret' = [ret EXCEPT ![b] = SendResultInternal(ok)]
  /\ Record(b, Call("Send", 0, "", << >>, << >>))
  /\ UNCHANGED <<rw, heap>>

\* Variant of BuildAndSendFields: the headers argument is dropped.
BuildAndSendFields_NoHeaders(r, status, body, ref) ==
  BuildFieldsInternal(r, status, body)

\* templates.go:144-145
BuildAndSendFields(r, status, body, ref) ==
  BuildFieldsInternal(SetHeadersFieldInternal(r, ref), status, body)

\* Variant of BuildAndSendResult: the error of Send is dropped.
BuildAndSendResult_Dropped(ok) == "nil"

\* templates.go:146
BuildAndSendResult(ok) == SendResultInternal(ok)

\* templates.go:143-147
BuildAndSend(b, status, body, hdr, ok) ==
  /\ CanCall(b)
  /\ rw' = [rw EXCEPT ![b] = BuildAndSendFields(@, status, body, ArgRef(b, hdr))]
  /\ heap' = Alloc(heap, b, hdr)
  /\ \E order \in RangeOrders(DOMAIN HeaderMapOf(heap', rw'[b].headers)) :
       trace' = [trace EXCEPT ![b] =
          @ \o SendEventsInternal(rw'[b], heap', order, ok, Len(calls[b]) + 1)]
  /\ ret' = [ret EXCEPT ![b] = BuildAndSendResult(ok)]
  /\ Record(b, Call("BuildAndSend", status, body, hdr, << >>))

\* ------------------------------------------------------- core/templates
TemplateSuffix == << ".", "t", "m", "p", "l" >>
NameA == << "a", ".", "t", "m", "p", "l" >>
NameB == << "b", ".", "t", "m", "p", "l" >>
NameC == << "c", ".", "t", "x", "t" >>

\* os.ReadDir returns the entries sorted by file name.
SortedNames == << NameA, NameB, NameC >>
FileNames == { SortedNames[i] : i \in 1..Len(SortedNames) }

TemplateFolder == "./templates"

\* templates.go:32 strings.HasSuffix
HasSuffix(s, suffix) ==
  /\ Len(s) >= Len(suffix)
  /\ SubSeq(s, Len(s) - Len(suffix) + 1, Len(s)) = suffix

\* A file's text as html/template lexes it: literal text, {{.name}},
\* {{.name.field}} and an action that is never closed.
Text(cs) == [t |-> "text", s |-> cs, f |-> ""]
Field(name) == [t |-> "field", s |-> << >>, f |-> name]
FieldOfField(name) == [t |-> "fieldOfField", s |-> << >>, f |-> name]
Unclosed == [t |-> "unclosed", s |-> << >>, f |-> ""]

FileContents ==
  { << Text(<< "H", "i", " " >>), Field("message"), Text(<< "!" >>) >>,
    << Text(<< "x" >>), Unclosed >>,
    << Text(<< "p" >>), FieldOfField("message") >> }

\* An entry of the folder: none, a file that can be read, or an entry that is
\* listed but cannot be read as a file (no permission, a directory).
Absent == [st |-> "absent", c |-> << >>]
File(c) == [st |-> "file", c |-> c]
Unreadable == [st |-> "unreadable", c |-> << >>]

\* templates.go:26,31-35: the names of the entries, filtered by suffix.
DirEntries(st) == SelectSeq(SortedNames, LAMBDA n : st[n].st # "absent")

\* Variant of IndexOf: every entry is indexed.
IndexOf_Unfiltered(st) == DirEntries(st)

IndexOf(st) == SelectSeq(DirEntries(st), LAMBDA n : HasSuffix(n, TemplateSuffix))

\* No call on the package yet.
NoResult ==
  [op |-> "none", name |-> << >>, onDisk |-> FALSE, content |-> << >>,
   err |-> "nil", out |-> << >>, tick |-> 0, changed |-> FALSE]

\* What a call returned; tick alternates so that every call is a step of its
\* own, and changed tells that the call before returned other content for the
\* same name.
Result(op, name, onDisk, content, err, out) ==
  [op |-> op, name |-> name, onDisk |-> onDisk, content |-> content,
   err |-> err, out |-> out, tick |-> 1 - tres.tick,
   changed |-> /\ op = "GetTemplate" /\ tres.op = "GetTemplate"
               /\ tres.name = name
               /\ err = "nil" /\ tres.err = "nil"
               /\ content # tres.content]

\* templates.go:25-40; listable is whether os.ReadDir returned without error.
LoadTemplateFolder(listable) ==
  /\ tmpl' = IF listable
               THEN << [folder |-> TemplateFolder, templates |-> IndexOf(storage)] >>
               ELSE tmpl
  /\ tres' = Result("LoadTemplateFolder", << >>, FALSE, << >>,
                    IF listable THEN "nil" ELSE "DirectoryReadError", << >>)
  /\ UNCHANGED <<storage, units, bvars>>

\* Variant of ReadFile: a failed read is reported as a template not found.
ReadFile_ErrorAsNotFound(st, name) ==
  IF st[name].st = "file"
    THEN [content |-> << st[name].c >>, err |-> "nil"]
    ELSE [content |-> << >>, err |-> "NotFound"]

\* templates.go:50-54 os.ReadFile(path.Join(t.folder, file))
ReadFile(st, name) ==
  IF st[name].st = "file"
    THEN [content |-> << st[name].c >>, err |-> "nil"]
    ELSE [content |-> << >>, err |-> "ReadError"]

\* Variant of GetTemplateScan: a name that is not indexed is looked up on
\* storage.
RECURSIVE GetTemplateScan_ReadsUnindexed(_, _, _, _)
GetTemplateScan_ReadsUnindexed(templates, i, st, filename) ==
  IF i > Len(templates)
    THEN IF filename \in DOMAIN st /\ st[filename].st = "file"
           THEN ReadFile(st, filename)
           ELSE [content |-> << >>, err |-> "NotFound"]
  ELSE IF templates[i] = filename THEN ReadFile(st, templates[i])
  ELSE GetTemplateScan_ReadsUnindexed(templates, i + 1, st, filename)

\* templates.go:48-57: the linear scan of the index from position i.
RECURSIVE GetTemplateScan(_, _, _, _)
GetTemplateScan(templates, i, st, filename) ==
  IF i > Len(templates) THEN [content |-> << >>, err |-> "NotFound"]
  ELSE IF templates[i] = filename THEN ReadFile(st, templates[i])
  ELSE GetTemplateScan(templates, i + 1, st, filename)

\* Variant of GetTemplate: the content returned for a name is kept and
\* returned again.
GetTemplate_Cached(filename) ==
  /\ tmpl # << >>
  /\ LET r == IF tres.op = "GetTemplate" /\ tres.name = filename
                   /\ tres.err = "nil"
                THEN [content |-> tres.content, err |-> "nil"]
                ELSE GetTemplateScan(tmpl[1].templates, 1, storage, filename)
     IN  tres' = Result("GetTemplate", filename,
                        storage[filename].st = "file", r.content, r.err, << >>)
  /\ UNCHANGED <<storage, tmpl, units, bvars>>

\* templates.go:47-58
GetTemplate(filename) ==
  /\ tmpl # << >>
  /\ LET r == GetTemplateScan(tmpl[1].templates, 1, storage, filename)
     IN  tres' = Result("GetTemplate", filename,
                        storage[filename].st = "file", r.content, r.err, << >>)
  /\ UNCHANGED <<storage, tmpl, units, bvars>>

\* html/template escapes what it substitutes into HTML text.
HtmlEscapeChar(c) ==
  CASE c = "<" -> << "&", "l", "t", ";" >>
    [] c = ">" -> << "&", "g", "t", ";" >>
    [] c = "&" -> << "&", "a", "m", "p", ";" >>
    [] OTHER -> << c >>

RECURSIVE HtmlEscape(_)
HtmlEscape(cs) ==
  IF cs = << >> THEN << >> ELSE HtmlEscapeChar(Head(cs)) \o HtmlEscape(Tail(cs))

\* templates.go:74 template.New("template").Parse(content)
ParseOK(content) == \A i \in 1..Len(content) : content[i].t # "unclosed"

\* templates.go:79 tmpl.Execute(buff, variables): the text written to buff and
\* whether execution stopped with an error. A key the map lacks renders as
\* nothing; a field of a string cannot be evaluated.
RECURSIVE Execute(_, _, _)
Execute(content, variables, buff) ==
  IF content = << >> THEN [buff |-> buff, err |-> FALSE]
  ELSE LET tok == Head(content)
       IN  IF tok.t = "text"
             THEN Execute(Tail(content), variables, buff \o tok.s)
           ELSE IF tok.t = "field"
             THEN Execute(Tail(content), variables,
                    buff \o (IF tok.f \in DOMAIN variables
                               THEN HtmlEscape(variables[tok.f]) ELSE << >>))
           ELSE [buff |-> buff, err |-> TRUE]

\* Variant of LoadHTMLResult: what was rendered before the error is returned.
LoadHTMLResult_KeepsPartial(templates, st, name, variables) ==
  LET r == GetTemplateScan(templates, 1, st, name)
  IN  IF r.err # "nil" THEN << >>
      ELSE IF ~ParseOK(r.content[1]) THEN << >>
      ELSE Execute(r.content[1], variables, << >>).buff

\* templates.go:66-85
LoadHTMLResult(templates, st, name, variables) ==
  LET r == GetTemplateScan(templates, 1, st, name)
  IN  IF r.err # "nil" THEN << >>
      ELSE IF ~ParseOK(r.content[1]) THEN << >>
      ELSE LET x == Execute(r.content[1], variables, << >>)
           IN  IF x.err THEN << >> ELSE x.buff

EmptyVariables == [k \in {} |-> << >>]

VariableMaps ==
  { ("message" :> << "h", "i" >>), ("message" :> << "<", "b", ">" >>),
    EmptyVariables }

\* templates.go:66-85
LoadHTML(name, variables) ==
  /\ tmpl # << >>
  /\ tres' = Result("LoadHTML", name, storage[name].st = "file", << >>, "nil",
                    LoadHTMLResult(tmpl[1].templates, storage, name, variables))
  /\ UNCHANGED <<storage, tmpl, units, bvars>>

\* ---------------------------------- handlers sharing one *Template
\* Request handlers that run at the same time and call the same *Template.
\* A call is a sequence of steps: the scan of t.templates element by element
\* (templates.go:48-49), the read of the file (50), and for LoadHTML the
\* parse and execution on the call's own buffer (67, 74-84).
Units == { "u1", "u2" }

NoReturn == [content |-> << >>, err |-> "nil", out |-> << >>]

\* A handler that is not in a call.
Idle ==
  [pc |-> "idle", op |-> "none", name |-> << >>, variables |-> EmptyVariables,
   i |-> 0, seen |-> << >>, content |-> << >>, res |-> NoReturn]

\* The call of x has returned res; its locals are gone, seen keeps the
\* folder entry the call read, if it read one.
Returned(x, res) ==
  [Idle EXCEPT !.pc = "done", !.op = x.op, !.name = x.name,
               !.variables = x.variables, !.seen = x.seen, !.res = res]

\* templates.go:47 entry of GetTemplate
BeginGetTemplate(u, filename) ==
  /\ tmpl # << >>
  /\ units[u].pc \in { "idle", "done" }
  /\ units' = [units EXCEPT ![u] =
        [Idle EXCEPT !.pc = "scan", !.op = "GetTemplate", !.name = filename,
                     !.i = 1]]
  /\ UNCHANGED <<storage, tmpl, tres, bvars>>

\* templates.go:66-69 entry of LoadHTML, which calls GetTemplate
BeginLoadHTML(u, name, variables) ==
  /\ tmpl # << >>
  /\ units[u].pc \in { "idle", "done" }
  /\ units' = [units EXCEPT ![u] =
        [Idle EXCEPT !.pc = "scan", !.op = "LoadHTML", !.name = name,
                     !.variables = variables, !.i = 1]]
  /\ UNCHANGED <<storage, tmpl, tres, bvars>>

\* Variant of Scan: the name that was found is moved to the front of the
\* index, so that it is found sooner the next time.
Scan_MoveToFront(u) ==
  /\ units[u].pc = "scan"
  /\ LET x == units[u]
         ts == tmpl[1].templates
     IN  IF x.i > Len(ts)
           THEN /\ units' = [units EXCEPT ![u] =
                     Returned(x, IF x.op = "GetTemplate"
                                   THEN [NoReturn EXCEPT !.err = "NotFound"]
                                   ELSE NoReturn)]
                /\ tmpl' = tmpl
         ELSE IF ts[x.i] = x.name
           THEN /\ units' = [units EXCEPT ![u] = [x EXCEPT !.pc = "read", !.i = 1]]
                /\ tmpl' = << [tmpl[1] EXCEPT !.templates =
                             << ts[x.i] >> \o SubSeq(ts, 1, x.i - 1)
                                          \o SubSeq(ts, x.i + 1, Len(ts))] >>
         ELSE /\ units' = [units EXCEPT ![u] = [x EXCEPT !.i = x.i + 1]]
              /\ tmpl' = tmpl
  /\ UNCHANGED <<storage, tres, bvars>>

\* templates.go:48-49 and 57: one iteration of the loop over t.templates, or
\* the return after the loop.
Scan(u) ==
  /\ units[u].pc = "scan"
  /\ LET x == units[u]
         ts == tmpl[1].templates
     IN  IF x.i > Len(ts)
           THEN units' = [units EXCEPT ![u] =
                  Returned(x, IF x.op = "GetTemplate"
                                THEN [NoReturn EXCEPT !.err = "NotFound"]
                                ELSE NoReturn)]
         ELSE IF ts[x.i] = x.name
           THEN units' = [units EXCEPT ![u] = [x EXCEPT !.pc = "read"]]
         ELSE units' = [units EXCEPT ![u] = [x EXCEPT !.i = x.i + 1]]
  /\ UNCHANGED <<storage, tmpl, tres, bvars>>

\* templates.go:50-54 (and 69-72 in LoadHTML): the file is read as it is now.
Read(u) ==
  /\ units[u].pc = "read"
  /\ LET x == units[u]
         file == tmpl[1].templates[x.i]
         r == ReadFile(storage, file)
         y == [x EXCEPT !.seen = << storage[file] >>]
     IN  units' = [units EXCEPT ![u] =
           IF x.op = "GetTemplate"
             THEN Returned(y, [content |-> r.content, err |-> r.err, out |-> << >>])
           ELSE IF r.err # "nil" THEN Returned(y, NoReturn)
           ELSE [y EXCEPT !.pc = "render", !.i = 0, !.content = r.content]]
  /\ UNCHANGED <<storage, tmpl, tres, bvars>>

\* templates.go:74-84: parse and execute into the call's own buffer.
Rendered(content, variables) ==
  IF ~ParseOK(content) THEN << >>
  ELSE LET x == Execute(content, variables, << >>)
       IN  IF x.err THEN << >> ELSE x.buff

Render(u) ==
  /\ units[u].pc = "render"
  /\ LET x == units[u]
     IN  units' = [units EXCEPT ![u] =
           Returned(x, [NoReturn EXCEPT !.out = Rendered(x.content[1], x.variables)])]
  /\ UNCHANGED <<storage, tmpl, tres, bvars>>

\* The folder changes under the program: a file is created or rewritten, or
\* removed.
WriteFile(name, c) ==
  /\ storage[name] # File(c)
  /\ storage' = [storage EXCEPT ![name] = File(c)]
  /\ UNCHANGED <<tmpl, tres, units, bvars>>

RemoveFile(name) ==
  /\ storage[name].st # "absent"
  /\ storage' = [storage EXCEPT ![name] = Absent]
  /\ UNCHANGED <<tmpl, tres, units, bvars>>

\* A file loses its read permission, or a directory takes its place.
MakeUnreadable(name) ==
  /\ storage[name].st = "file"
  /\ storage' = [storage EXCEPT ![name] = Unreadable]
  /\ UNCHANGED <<tmpl, tres, units, bvars>>

\* ------------------------------------------------------------ specification
NoTemplates ==
  /\ storage = [n \in FileNames |-> Absent]
  /\ tmpl = << >>
  /\ tres = NoResult
  /\ units = [u \in Units |-> Idle]

Init ==
  /\ rw = [b \in Builders |-> New(b)]
  /\ heap = [ref \in { Ref(b, 0) : b \in Builders } |-> EmptyMap]
  /\ trace = [b \in Builders |-> << >>]
  /\ ret = [b \in Builders |-> "none"]
  /\ calls = [b \in Builders |-> << >>]
  /\ NoTemplates

HeaderArgs == { << m >> : m \in HeaderMaps } \cup { << >> }

Next ==
  \/ \E s \in StatusCodes, body \in Bodies : Build("b1", s, body)
  \/ \E hdr \in HeaderArgs : SetHeaders("b1", hdr)
  \/ IgnoreLog("b1")
  \/ \E ok \in BOOLEAN : Send("b1", ok)
  \/ \E s \in StatusCodes, j \in JsonBodies, ok \in BOOLEAN : AsJson("b1", s, j, ok)

Spec == Init /\ [][Next]_vars

\* Two internal writers in equal states, each with its own sink: b1 is sent
\* with BuildAndSend, b2 with SetHeaders, Build and Send. The writers start
\* either as New leaves them or with status, body and headers already set.
StartHeaders == { EmptyMap, (KeyContentType :> "text/html") @@ (KeyXA :> "1") }

InitEq ==
  /\ \E m \in StartHeaders :
       heap = [ref \in { Ref(b, 0) : b \in Builders } |-> m]
  /\ \E r \in { NewInternal("b1"),
               BuildFieldsInternal(NewInternal("b1"), StatusNotFound, "bye") } :
       rw = [b \in Builders |-> [r EXCEPT !.headers = Ref(b, 0), !.w = b]]
  /\ trace = [b \in Builders |-> << >>]
  /\ ret = [b \in Builders |-> "none"]
  /\ calls = [b \in Builders |-> << >>]
  /\ NoTemplates

NextEq ==
  \/ \E s \in StatusCodes, body \in Bodies, hdr \in HeaderArgs, ok \in BOOLEAN :
       calls["b1"] = << >> /\ BuildAndSend("b1", s, body, hdr, ok)
  \/ \E hdr \in HeaderArgs : SetHeadersInternal("b2", hdr)
  \/ \E s \in StatusCodes, body \in Bodies : BuildInternal("b2", s, body)
  \/ \E ok \in BOOLEAN : SendInternal("b2", ok)

SpecEq == InitEq /\ [][NextEq]_vars

\* Two handlers running at the same time, each with its own writer and sink,
\* both passing one and the same header map to SetHeaders.
SharedRef == Ref("shared", 0)

InitShared ==
  /\ rw = [b \in Builders |-> New(b)]
  /\ heap = (SharedRef :> (KeyXA :> "1"))
              @@ [ref \in { Ref(b, 0) : b \in Builders } |-> EmptyMap]
  /\ trace = [b \in Builders |-> << >>]
  /\ ret = [b \in Builders |-> "none"]
  /\ calls = [b \in Builders |-> << >>]
  /\ NoTemplates

NextShared ==
  \E b \in Builders :
    \/ SetHeadersRef(b, SharedRef)
    \/ Build(b, StatusNotFound, "hi")
    \/ Send(b, TRUE)
    \/ AsJson(b, StatusOK, ("status" :> JString("up")), TRUE)

SpecShared == InitShared /\ [][NextShared]_vars

\* The core writer bound to requests from different peers.
InitLog ==
  /\ \E addr \in RemoteAddrs :
       rw = [b \in Builders |-> [New(b) EXCEPT !.r = Request(addr)]]
  /\ heap = [ref \in { Ref(b, 0) : b \in Builders } |-> EmptyMap]
  /\ trace = [b \in Builders |-> << >>]
  /\ ret = [b \in Builders |-> "none"]
  /\ calls = [b \in Builders |-> << >>]
  /\ NoTemplates

SpecLog == InitLog /\ [][Next]_vars

\* The templates package over a folder that changes under it.
InitTemplates ==
  /\ rw = [b \in Builders |-> New(b)]
  /\ heap = [ref \in { Ref(b, 0) : b \in Builders } |-> EmptyMap]
  /\ trace = [b \in Builders |-> << >>]
  /\ ret = [b \in Builders |-> "none"]
  /\ calls = [b \in Builders |-> << >>]
  /\ storage \in [FileNames -> {Absent, Unreadable}
                                  \cup { File(c) : c \in FileContents }]
  /\ tmpl = << >>
  /\ tres = NoResult
  /\ units = [u \in Units |-> Idle]

NextTemplates ==
  \/ \E listable \in BOOLEAN : LoadTemplateFolder(listable)
  \/ \E name \in FileNames : GetTemplate(name)
  \/ \E name \in FileNames, v \in VariableMaps : LoadHTML(name, v)
  \/ \E name \in FileNames, c \in FileContents : WriteFile(name, c)
  \/ \E name \in FileNames : RemoveFile(name)
  \/ \E name \in FileNames : MakeUnreadable(name)

SpecTemplates == InitTemplates /\ [][NextTemplates]_vars

\* Two handlers calling one *Template that was loaded from a folder of three
\* files, while the two template files are rewritten, removed or made
\* unreadable.
Greeting == << Text(<< "H", "i", " " >>), Field("message"), Text(<< "!" >>) >>

ChangingNames == { NameA, NameB }

InitConcurrent ==
  /\ rw = [b \in Builders |-> New(b)]
  /\ heap = [ref \in { Ref(b, 0) : b \in Builders } |-> EmptyMap]
  /\ trace = [b \in Builders |-> << >>]
  /\ ret = [b \in Builders |-> "none"]
  /\ calls = [b \in Builders |-> << >>]
  /\ storage = [n \in FileNames |-> File(Greeting)]
  /\ tmpl = << [folder |-> TemplateFolder, templates |-> IndexOf(storage)] >>
  /\ tres = NoResult
  /\ units = [u \in Units |-> Idle]

NextConcurrent ==
  \/ \E u \in Units, name \in FileNames : BeginGetTemplate(u, name)
  \/ \E u \in Units, name \in FileNames, v \in VariableMaps :
       BeginLoadHTML(u, name, v)
  \/ \E u \in Units : Scan(u)
  \/ \E u \in Units : Read(u)
  \/ \E u \in Units : Render(u)
  \/ \E name \in ChangingNames, c \in FileContents : WriteFile(name, c)
  \/ \E name \in ChangingNames : RemoveFile(name)
  \/ \E name \in ChangingNames : MakeUnreadable(name)

SpecConcurrent == InitConcurrent /\ [][NextConcurrent]_vars

\* =================================================================== claims
NCalls(b) == Len(calls[b])

LastCall(b) == calls[b][Len(calls[b])]

\* What the sink and the logger saw during the n-th call on b.
CallEvents(b, n) == SelectSeq(trace[b], LAMBDA e : e.call = n)

EventsOfKind(tr, ev) == SelectSeq(tr, LAMBDA e : e.ev = ev)

\* The values the sink's header collection holds under canonical key ck.
HeaderValues(tr, ck) ==
  LET adds == SelectSeq(tr, LAMBDA e :
                e.ev = "Add" /\ CanonicalMIMEHeaderKey(e.k) = ck)
  IN  [i \in 1..Len(adds) |-> adds[i].v]

AddedPairs(tr) ==
  { << tr[i].k, tr[i].v >> : i \in { j \in 1..Len(tr) : tr[j].ev = "Add" } }

ArgPairs(hdr) ==
  IF hdr = << >> THEN {} ELSE { << k, hdr[1][k] >> : k \in DOMAIN hdr[1] }

WriteFailedIn(b, n) ==
  \E i \in 1..Len(trace[b]) :
    trace[b][i].call = n /\ trace[b][i].ev = "Write" /\ ~trace[b][i].ok

WriteSucceededIn(b, n) ==
  \E i \in 1..Len(trace[b]) :
    trace[b][i].call = n /\ trace[b][i].ev = "Write" /\ trace[b][i].ok

IgnoreLogCalledBefore(b, n) ==
  \E i \in 1..(n - 1) : calls[b][i].op = "IgnoreLog"

Encodable(j) == \A k \in DOMAIN j : j[k].t # "chan"

\* C1: whatever calls are made on one writer, its sink receives at most one
\* status write and at most one body write.
C1_AtMostOneTerminalSend ==
  \A b \in Builders :
    /\ Len(EventsOfKind(trace[b], "WriteHeader")) <= 1
    /\ Len(EventsOfKind(trace[b], "Write")) <= 1

\* C2: a sending call (Send, BuildAndSend, AsJson) whose body write failed
\* returns the write error.
C2_WriteErrorSurfaced ==
  \A b \in Builders :
    (/\ NCalls(b) > 0
     /\ LastCall(b).op \in {"Send", "BuildAndSend", "AsJson"}
     /\ WriteFailedIn(b, NCalls(b)))
    => ret[b] = "WriteError"

\* The mapping most recently given to SetHeaders before the n-th call, as
\* << m >>, << >> for nil, or << EmptyMap >> when SetHeaders was never called.
RECURSIVE HeadersGivenBefore(_, _)
HeadersGivenBefore(b, n) ==
  IF n <= 1 THEN << EmptyMap >>
  ELSE IF calls[b][n-1].op = "SetHeaders" THEN calls[b][n-1].hdr
  ELSE HeadersGivenBefore(b, n - 1)

FirstSendingCall(b, n) ==
  \A i \in 1..(n - 1) : calls[b][i].op \in {"Build", "SetHeaders", "IgnoreLog"}

\* C3: AsJson with an encodable body, on a writer given a header mapping
\* before, leaves the sink with the single content-type value
\* application/json and with every other header given before.
C3_JsonContentTypeOverrides ==
  \A b \in Builders :
    (/\ NCalls(b) > 0
     /\ LastCall(b).op = "AsJson"
     /\ Encodable(LastCall(b).jbody[1])
     /\ FirstSendingCall(b, NCalls(b))
     /\ HeadersGivenBefore(b, NCalls(b)) # << >>)
    => LET given == HeadersGivenBefore(b, NCalls(b))[1]
       IN  /\ HeaderValues(trace[b], KeyContentTypeCanonical)
                = << "application/json" >>
           /\ \A k \in DOMAIN given :
                CanonicalMIMEHeaderKey(k) # KeyContentTypeCanonical
                => HeaderValues(trace[b], CanonicalMIMEHeaderKey(k))
                     = << given[k] >>

LogsIn(b, n) == Len(EventsOfKind(CallEvents(b, n), "Log"))

\* C4 as stated: a Send after IgnoreLog emits no log record, and a Send on a
\* writer IgnoreLog was never called on emits exactly one.
C4_OneLogUnlessIgnored ==
  \A b \in Builders :
    (NCalls(b) > 0 /\ LastCall(b).op = "Send")
    => IF IgnoreLogCalledBefore(b, NCalls(b))
         THEN LogsIn(b, NCalls(b)) = 0
         ELSE LogsIn(b, NCalls(b)) = 1

\* C4 amended: a Send after IgnoreLog emits no log record; a Send on a writer
\* IgnoreLog was never called on emits exactly one log record when its body
\* write succeeds and none when it fails.
C4_OneLogUnlessIgnoredOrFailed ==
  \A b \in Builders :
    (NCalls(b) > 0 /\ LastCall(b).op = "Send")
    => IF IgnoreLogCalledBefore(b, NCalls(b))
         THEN LogsIn(b, NCalls(b)) = 0
         ELSE IF WriteSucceededIn(b, NCalls(b))
           THEN LogsIn(b, NCalls(b)) = 1
           ELSE LogsIn(b, NCalls(b)) = 0

\* IgnoreLog, then Build or SetHeaders, then a Send whose write succeeded.
C4_Witness ==
  \E b \in Builders :
    /\ NCalls(b) = 3
    /\ calls[b][1].op = "IgnoreLog"
    /\ calls[b][2].op \in {"Build", "SetHeaders"}
    /\ calls[b][3].op = "Send"
    /\ WriteSucceededIn(b, 3)
    /\ LogsIn(b, 3) = 0

\* C5: SetHeaders(h), SetHeaders(h2), Send() adds exactly the pairs of h2 to
\* the sink, each once.
C5_SetHeadersReplaces ==
  \A b \in Builders :
    (/\ NCalls(b) >= 3
     /\ calls[b][NCalls(b) - 2].op = "SetHeaders"
     /\ calls[b][NCalls(b) - 1].op = "SetHeaders"
     /\ LastCall(b).op = "Send")
    => LET es == CallEvents(b, NCalls(b))
           h2 == calls[b][NCalls(b) - 1].hdr
       IN  /\ AddedPairs(es) = ArgPairs(h2)
           /\ Len(EventsOfKind(es, "Add")) = Cardinality(ArgPairs(h2))

\* h has a key that h2 lacks, and the Send did not add it.
C5_Witness ==
  \E b \in Builders :
    /\ NCalls(b) = 3
    /\ calls[b][1].op = "SetHeaders"
    /\ calls[b][2].op = "SetHeaders"
    /\ calls[b][3].op = "Send"
    /\ calls[b][1].hdr # << >>
    /\ KeyXA \in DOMAIN calls[b][1].hdr[1]
    /\ calls[b][2].hdr # << >>
    /\ KeyXA \notin DOMAIN calls[b][2].hdr[1]
    /\ \A i \in 1..Len(trace[b]) : trace[b][i].k # KeyXA
    /\ AddedPairs(trace[b]) # {}

\* C6: Build(status, body) then Send() makes the sink receive exactly one
\* status write, of status, and exactly one body write, of body, and at most
\* one log record is emitted.
C6_BuildThenSend ==
  \A b \in Builders :
    (/\ NCalls(b) >= 2
     /\ calls[b][NCalls(b) - 1].op = "Build"
     /\ LastCall(b).op = "Send")
    => LET es == CallEvents(b, NCalls(b))
           built == calls[b][NCalls(b) - 1]
       IN  /\ Len(EventsOfKind(es, "WriteHeader")) = 1
           /\ EventsOfKind(es, "WriteHeader")[1].n = built.status
           /\ Len(EventsOfKind(es, "Write")) = 1
           /\ EventsOfKind(es, "Write")[1].v = built.body
           /\ Len(EventsOfKind(es, "Log")) <= 1

C6_Witness ==
  \E b \in Builders :
    /\ NCalls(b) = 2
    /\ calls[b][1].op = "Build"
    /\ calls[b][1].status = StatusNotFound
    /\ calls[b][1].body = "bye"
    /\ calls[b][2].op = "Send"
    /\ \E i \in 1..Len(trace[b]) :
         trace[b][i].ev = "Write" /\ trace[b][i].v = "bye" /\ trace[b][i].ok

\* C7: a log record is only ever emitted after a successful body write of the
\* same call; a Send whose write failed emits none, ignoreLog set or not.
C7_NoLogAfterFailedWrite ==
  \A b \in Builders :
    /\ \A i \in 1..Len(trace[b]) :
         trace[b][i].ev = "Log"
         => \E j \in 1..(i - 1) :
              /\ trace[b][j].ev = "Write"
              /\ trace[b][j].ok
              /\ trace[b][j].call = trace[b][i].call
    /\ \A n \in 1..NCalls(b) : WriteFailedIn(b, n) => LogsIn(b, n) = 0

\* A Send on a writer with ignoreLog unset whose write failed.
C7_Witness ==
  \E b \in Builders :
    /\ NCalls(b) > 0
    /\ LastCall(b).op = "Send"
    /\ ~rw[b].ignoreLog
    /\ WriteFailedIn(b, NCalls(b))
    /\ LogsIn(b, NCalls(b)) = 0

\* C8: when the body cannot be encoded, AsJson returns the encoding error and
\* neither the sink nor the logger sees anything from that call.
C8_MarshalErrorWritesNothing ==
  \A b \in Builders :
    (/\ NCalls(b) > 0
     /\ LastCall(b).op = "AsJson"
     /\ ~Encodable(LastCall(b).jbody[1]))
    => /\ ret[b] = "MarshalError"
       /\ CallEvents(b, NCalls(b)) = << >>

\* AsJson with a channel in the body, on a writer that has headers to send.
C8_Witness ==
  \E b \in Builders :
    /\ NCalls(b) = 2
    /\ calls[b][1].op = "SetHeaders"
    /\ calls[b][1].hdr # << >>
    /\ calls[b][2].op = "AsJson"
    /\ ~Encodable(calls[b][2].jbody[1])
    /\ ret[b] = "MarshalError"
    /\ trace[b] = << >>

\* What a call made the sink and the logger see, without the call number: the
\* header pairs added, and the status, body and log events in order.
Observed(b, n) ==
  LET es == CallEvents(b, n)
      rest == SelectSeq(es, LAMBDA e : e.ev # "Add")
  IN  [ adds  |-> AddedPairs(es),
        nadds |-> Len(EventsOfKind(es, "Add")),
        rest  |-> [i \in 1..Len(rest) |-> [rest[i] EXCEPT !.call = 0]] ]

\* The fields of a writer, its headers by content, whichever sink it is bound to.
Fields(b) == [rw[b] EXCEPT !.headers = HeaderMapOf(heap, @), !.w = "sink"]

\* b1 was sent with BuildAndSend(status, body, headers) and b2 with
\* SetHeaders(headers), Build(status, body), Send(), and the body write had
\* the same outcome on both sinks.
SameArguments ==
  /\ NCalls("b1") = 1
  /\ calls["b1"][1].op = "BuildAndSend"
  /\ NCalls("b2") = 3
  /\ calls["b2"][1].op = "SetHeaders"
  /\ calls["b2"][2].op = "Build"
  /\ calls["b2"][3].op = "Send"
  /\ calls["b2"][1].hdr = calls["b1"][1].hdr
  /\ calls["b2"][2].status = calls["b1"][1].status
  /\ calls["b2"][2].body = calls["b1"][1].body
  /\ WriteSucceededIn("b1", 1) = WriteSucceededIn("b2", 3)

\* C9: from equal states, BuildAndSend(status, body, headers) and
\* SetHeaders(headers), Build(status, body), Send() produce the same sink
\* writes and log record, the same writer fields and the same returned error.
C9_BuildAndSendIsComposition ==
  SameArguments
  => /\ Observed("b1", 1) = Observed("b2", 3)
     /\ trace["b1"] = CallEvents("b1", 1)
     /\ trace["b2"] = CallEvents("b2", 3)
     /\ Fields("b1") = Fields("b2")
     /\ ret["b1"] = ret["b2"]

\* Writers that started with other headers, status and body than the ones
\* passed, and whose body write failed.
C9_Witness ==
  /\ SameArguments
  /\ WriteFailedIn("b1", 1)
  /\ ret["b1"] = "WriteError"
  /\ calls["b1"][1].status = StatusOK
  /\ calls["b1"][1].hdr # << >>
  /\ KeyContentTypeCanonical \in DOMAIN calls["b1"][1].hdr[1]
  /\ KeyXA \in DOMAIN heap[Ref("b1", 0)]
  /\ AddedPairs(trace["b2"]) = { << KeyContentTypeCanonical, "text/html" >> }

Indexed(name) ==
  tmpl # << >> /\ \E i \in 1..Len(tmpl[1].templates) : tmpl[1].templates[i] = name

\* C10: GetTemplate of a name that is not in the index fails with the
\* not-found error and returns no content, whether or not a file of that name
\* is on storage; and no GetTemplate or LoadHTML call changes the index.
C10_IndexIsSnapshot ==
  /\ [](tres.op = "GetTemplate" /\ ~Indexed(tres.name)
        => tres.err = "NotFound" /\ tres.content = << >>)
  /\ [][tres' # tres /\ tres'.op \in {"GetTemplate", "LoadHTML"}
        => tmpl' = tmpl]_vars

\* A file added after construction, and c.txt, asked for while on storage.
C10_Witness ==
  /\ tres.op = "GetTemplate"
  /\ tres.onDisk
  /\ tres.err = "NotFound"
  /\ ~Indexed(tres.name)
  /\ HasSuffix(tres.name, TemplateSuffix)
  /\ storage[NameC].st = "file"

Digits == { "0", "1", "2", "3", "4", "5", "6", "7", "8", "9" }

\* An address of the form host:port without its :port; any other address as
\* it is.
StripTrailingPort(addr) ==
  LET colons == { i \in 1..Len(addr) : addr[i] = ":" }
  IN  IF colons = {} THEN addr
      ELSE LET last == CHOOSE i \in colons : \A j \in colons : j <= i
           IN  IF last < Len(addr)
                  /\ \A j \in (last + 1)..Len(addr) : addr[j] \in Digits
                 THEN SubSeq(addr, 1, last - 1)
                 ELSE addr

\* C17: the remote address of a log record is the request's remote address
\* without its trailing :port, and the address itself when it has no port.
C17_RemoteAddressPortStripped ==
  \A b \in Builders :
    \A i \in 1..Len(trace[b]) :
      trace[b][i].ev = "Log"
      => trace[b][i].k = StripTrailingPort(rw[b].r.RemoteAddr)

\* C18: a new writer has status 200, no headers, an empty body and ignoreLog
\* unset; Send() right after New adds no header, writes status 200 and an
\* empty body, and on success emits exactly one log record, with status 200.
C18_NewThenSend ==
  \A b \in Builders :
    /\ NCalls(b) = 0
       => /\ rw[b].status = 200
          /\ rw[b].body = ""
          /\ ~rw[b].ignoreLog
          /\ rw[b].headers # Nil
          /\ DOMAIN heap[rw[b].headers] = {}
    /\ (NCalls(b) = 1 /\ calls[b][1].op = "Send")
       => /\ EventsOfKind(trace[b], "Add") = << >>
          /\ Len(EventsOfKind(trace[b], "WriteHeader")) = 1
          /\ EventsOfKind(trace[b], "WriteHeader")[1].n = 200
          /\ Len(EventsOfKind(trace[b], "Write")) = 1
          /\ EventsOfKind(trace[b], "Write")[1].v = ""
          /\ IF WriteSucceededIn(b, 1)
               THEN /\ LogsIn(b, 1) = 1
                    /\ EventsOfKind(trace[b], "Log")[1].n = 200
               ELSE LogsIn(b, 1) = 0

C18_Witness ==
  \E b \in Builders :
    /\ NCalls(b) = 1
    /\ calls[b][1].op = "Send"
    /\ WriteSucceededIn(b, 1)
    /\ Len(trace[b]) = 3
    /\ trace[b][3].ev = "Log"

EventRank(e) ==
  CASE e.ev = "Add" -> 1 [] e.ev = "WriteHeader" -> 2
    [] e.ev = "Write" -> 3 [] e.ev = "Log" -> 4

\* C19: within one sending call every header pair of the writer is added
\* before the status is written, the status is written before the body, and the
\* log record, if any, comes after a body write that succeeded.
C19_SendOrder ==
  \A b \in Builders :
    /\ \A n \in 1..NCalls(b) :
         LET es == CallEvents(b, n)
         IN  /\ \A i, j \in 1..Len(es) :
                  i < j => EventRank(es[i]) <= EventRank(es[j])
             /\ \A j \in 1..Len(es) :
                  es[j].ev = "Log"
                  => \E i \in 1..(j - 1) : es[i].ev = "Write" /\ es[i].ok
             /\ es # << >>
                => /\ Len(EventsOfKind(es, "WriteHeader")) = 1
                   /\ Len(EventsOfKind(es, "Write")) = 1
    /\ (NCalls(b) > 0 /\ LastCall(b).op = "Send")
       => LET m == HeaderMapOf(heap, rw[b].headers)
          IN  AddedPairs(CallEvents(b, NCalls(b)))
                = { << k, m[k] >> : k \in DOMAIN m }

\* A Send of two headers that was logged.
C19_Witness ==
  \E b \in Builders :
    /\ NCalls(b) = 2
    /\ calls[b][2].op = "Send"
    /\ Len(trace[b]) = 5
    /\ trace[b][1].ev = "Add"
    /\ trace[b][2].ev = "Add"
    /\ trace[b][3].ev = "WriteHeader"
    /\ trace[b][4].ev = "Write"
    /\ trace[b][5].ev = "Log"

\* C20: Build changes only status and body, SetHeaders only headers, IgnoreLog
\* only ignoreLog; none of them reaches the sink or the logger, changes the
\* bound sink, the request or the start time, or a map that already exists;
\* each returns the writer it was called on.
C20_NonTerminalFrame ==
  [][\A b \in Builders :
       (/\ calls'[b] # calls[b]
        /\ calls'[b][Len(calls'[b])].op \in {"Build", "SetHeaders", "IgnoreLog"})
       => LET c == calls'[b][Len(calls'[b])]
          IN  /\ trace' = trace
              /\ ret'[b] = "self"
              /\ rw'[b].w = rw[b].w
              /\ rw'[b].r = rw[b].r
              /\ rw'[b].start = rw[b].start
              /\ \A ref \in DOMAIN heap :
                   ref \in DOMAIN heap' /\ heap'[ref] = heap[ref]
              /\ \A o \in Builders \ {b} : rw'[o] = rw[o]
              /\ c.op = "Build"
                 => /\ rw'[b] = [rw[b] EXCEPT !.status = c.status,
                                              !.body = c.body]
              /\ c.op = "SetHeaders"
                 => /\ rw'[b] = [rw[b] EXCEPT !.headers = rw'[b].headers]
                    /\ ArgPairs(c.hdr)
                         = LET m == HeaderMapOf(heap', rw'[b].headers)
                           IN  { << k, m[k] >> : k \in DOMAIN m }
              /\ c.op = "IgnoreLog"
                 => rw'[b] = [rw[b] EXCEPT !.ignoreLog = TRUE]
    ]_vars

\* All three were called, nothing was sent or logged, and each field holds
\* what its own method set.
C20_Witness ==
  \E b \in Builders :
    /\ NCalls(b) = 3
    /\ calls[b][1].op = "SetHeaders"
    /\ calls[b][2].op = "Build"
    /\ calls[b][3].op = "IgnoreLog"
    /\ trace[b] = << >>
    /\ ret[b] = "self"
    /\ rw[b].status = StatusNotFound
    /\ rw[b].body = "bye"
    /\ rw[b].ignoreLog
    /\ rw[b].headers = Ref(b, 1)

\* The name ends in .tmpl.
EndsInTmpl(n) ==
  /\ Len(n) >= 5
  /\ n[Len(n) - 4] = "." /\ n[Len(n) - 3] = "t" /\ n[Len(n) - 2] = "m"
  /\ n[Len(n) - 1] = "p" /\ n[Len(n)] = "l"

\* A call on the templates package was made in this step.
TemplatesCalled(op) == tres'.tick # tres.tick /\ tres'.op = op

\* C11: LoadTemplateFolder on a folder that can be listed indexes exactly the
\* names of its entries that end in .tmpl, each once, and keeps the path.
C11_IndexIsSuffixFiltered ==
  [][(TemplatesCalled("LoadTemplateFolder") /\ tres'.err = "nil")
     => /\ tmpl' # << >>
        /\ tmpl'[1].folder = TemplateFolder
        /\ { tmpl'[1].templates[i] : i \in 1..Len(tmpl'[1].templates) }
             = { n \in FileNames : storage[n].st # "absent" /\ EndsInTmpl(n) }
        /\ Len(tmpl'[1].templates)
             = Cardinality({ n \in FileNames :
                               storage[n].st # "absent" /\ EndsInTmpl(n) })
    ]_vars

\* a.tmpl, b.tmpl and c.txt in the folder: a.tmpl and b.tmpl indexed.
C11_Witness ==
  /\ tres.op = "LoadTemplateFolder"
  /\ tres.err = "nil"
  /\ \A n \in FileNames : storage[n].st # "absent"
  /\ tmpl = << [folder |-> TemplateFolder, templates |-> << NameA, NameB >>] >>

\* What a template renders to: its text with every {{.name}} replaced by the
\* escaped value of name, by nothing when the map has no such key.
RECURSIVE Substituted(_, _)
Substituted(content, variables) ==
  IF content = << >> THEN << >>
  ELSE LET n == Len(content)
           last == content[n]
       IN  Substituted(SubSeq(content, 1, n - 1), variables)
             \o (IF last.t = "text" THEN last.s
                 ELSE IF last.f \in DOMAIN variables
                   THEN HtmlEscape(variables[last.f])
                 ELSE << >>)

\* The name is not indexed, its file cannot be read, its text does not parse,
\* or its execution fails.
RenderFails(name) ==
  \/ ~Indexed(name)
  \/ storage[name].st # "file"
  \/ \E i \in 1..Len(storage[name].c) :
       storage[name].c[i].t \in {"unclosed", "fieldOfField"}

\* C12: LoadHTML hands no error to its caller; it returns the empty string
\* when the name is not indexed, the file cannot be read, the template does
\* not parse or its execution fails, and the rendered text otherwise.
C12_RenderSwallowsErrors ==
  [][\A name \in FileNames, v \in VariableMaps :
       LoadHTML(name, v)
       => /\ tres'.err = "nil"
          /\ tres'.out = IF RenderFails(name) THEN << >>
                         ELSE Substituted(storage[name].c, v)
    ]_vars

\* A template that wrote "p" before its execution failed rendered as "".
C12_Witness ==
  /\ tres.op = "LoadHTML"
  /\ Indexed(tres.name)
  /\ tres.onDisk
  /\ storage[tres.name] = File(<< Text(<< "p" >>), FieldOfField("message") >>)
  /\ tres.out = << >>

\* C13: GetTemplate of an indexed name whose file can be read returns the
\* file's contents as they are at the call, so a call after a call for the
\* same name returns the same content exactly when the file still holds it.
C13_GetTemplateReadsFresh ==
  [][\A n \in FileNames :
       (GetTemplate(n) /\ Indexed(n) /\ storage[n].st = "file")
       => /\ tres'.err = "nil"
          /\ tres'.content = << storage[n].c >>
          /\ (tres.op = "GetTemplate" /\ tres.name = n /\ tres.err = "nil")
             => /\ (tres'.content = tres.content)
                     <=> (storage[n].c = tres.content[1])
                /\ tres'.changed <=> (storage[n].c # tres.content[1])
    ]_vars

\* Two calls for one name, the file rewritten in between: the second call
\* returned the new content.
C13_Witness ==
  /\ tres.op = "GetTemplate"
  /\ tres.changed
  /\ tres.err = "nil"
  /\ storage[tres.name] = File(tres.content[1])

\* C14: GetTemplate of an indexed name whose file is gone or cannot be read
\* fails with the read error, not the not-found error, returns no content and
\* leaves the index as it was.
C14_ReadErrorForIndexedName ==
  [][\A n \in FileNames :
       (GetTemplate(n) /\ Indexed(n) /\ storage[n].st # "file")
       => /\ tres'.err = "ReadError"
          /\ tres'.content = << >>
          /\ tmpl' = tmpl
    ]_vars

\* An indexed name whose file was removed after the index was taken.
C14_Witness ==
  /\ tres.op = "GetTemplate"
  /\ tres.err = "ReadError"
  /\ tres.content = << >>
  /\ Indexed(tres.name)
  /\ storage[tres.name] = Absent

\* What a Send on writer b would write now, and after the step.
WouldWrite(b) ==
  [status |-> rw[b].status, body |-> rw[b].body,
   headers |-> HeaderMapOf(heap, rw[b].headers)]

WouldWriteNext(b) ==
  [status |-> rw'[b].status, body |-> rw'[b].body,
   headers |-> HeaderMapOf(heap', rw'[b].headers)]

\* C16: a call on one writer never changes the status, headers or body that
\* another writer writes, also when both were given the same header map.
C16_WritersShareNoState ==
  [][\A b \in Builders :
       calls'[b] # calls[b]
       => \A o \in Builders \ {b} : WouldWriteNext(o) = WouldWrite(o)
    ]_vars

\* What the call of x returns when it runs alone, from start to end, on a
\* folder that holds the entry the call read.
AloneResult(x) ==
  LET st == IF x.seen = << >> THEN storage
            ELSE [storage EXCEPT ![x.name] = x.seen[1]]
  IN  IF x.op = "GetTemplate"
        THEN LET r == GetTemplateScan(tmpl[1].templates, 1, st, x.name)
             IN  [content |-> r.content, err |-> r.err, out |-> << >>]
      ELSE [NoReturn EXCEPT
              !.out = LoadHTMLResult(tmpl[1].templates, st, x.name, x.variables)]

\* C15: while handlers call GetTemplate and LoadHTML on one *Template in any
\* interleaving, the folder path and the index never change, and what a call
\* returns is what it returns when run alone with its own arguments on the
\* folder entry as it was when the call read it.
C15_SharedRegistryReadOnly ==
  /\ [](\A u \in Units :
          units[u].pc = "done" => units[u].res = AloneResult(units[u]))
  /\ [][tmpl' = tmpl]_vars

\* One handler is still rendering what it read while the other, which read
\* the same name after the file was rewritten, has returned other text.
C15_Witness ==
  /\ units["u1"].pc = "render"
  /\ units["u2"].pc = "done"
  /\ units["u2"].op = "LoadHTML"
  /\ units["u2"].name = units["u1"].name
  /\ units["u2"].variables = units["u1"].variables
  /\ units["u2"].seen # units["u1"].seen
  /\ units["u2"].res.out # << >>
  /\ units["u2"].res.out # Rendered(units["u1"].content[1], units["u1"].variables)

====
